---------------------------- MODULE Spec2Model ----------------------------
(***************************************************************************)
(* A model of src/app.py, the buy-versus-rent calculator.                  *)
(*                                                                         *)
(* Numbers.  The program computes with Python floats.  A number is         *)
(* modelled as an exact fraction <<n, d>> in lowest terms with d > 0, so   *)
(* that /, ** and the comparisons are computed and not assumed.  Python    *)
(* raises ZeroDivisionError on a division by zero; the operators that      *)
(* divide report it in their "error" field.                                *)
(***************************************************************************)
EXTENDS Integers, Sequences, FiniteSets

VARIABLES
    pc,          \* position of the running call, "done" once it has ended
    hin,         \* arguments of analysis_handler (NoHandler for a direct call)
    p,           \* parameters of the running calculate_* function
    year,        \* loop variable of the running year loop
    loan,        \* what calculate_loan_details returned
    costs,       \* locals of calculate_cumulative_costs
    break_even_year,   \* what determine_break_even_year returned
    cash,        \* locals of calculate_cash_flow_analysis
    result,      \* what the top-level call returned
    error,       \* the exception that ended the call, "none" if none
    run,         \* number of the evaluation (live re-invocation), 1 or 2
    first_break_even   \* break-even year of the first evaluation

vars == <<pc, hin, p, year, loan, costs, break_even_year, cash, result,
          error, run, first_break_even>>

-----------------------------------------------------------------------------
(* Bounds of the model *)

\* longest simulation horizon (max_years / max_sell_year)
MaxYears == 3

\* longest loan term in years (loan_years) given to calculate_loan_details
MaxLoanYears == 1

\* longest term in years of a payment schedule handed to the projections
MaxTermYears == 2

-----------------------------------------------------------------------------
(* Exact fractions *)

Abs(x) == IF x < 0 THEN -x ELSE x

RECURSIVE GCD(_, _)
GCD(a, b) == IF b = 0 THEN Abs(a) ELSE GCD(b, a % Abs(b))

\* the fraction n/d (d # 0) in lowest terms with a positive denominator
RNorm(n, d) ==
    LET g == GCD(n, d)
        s == IF d < 0 THEN -1 ELSE 1
    IN  <<(s * n) \div g, (s * d) \div g>>

Rat(n) == <<n, 1>>

Frac(n, d) == RNorm(n, d)

RAdd(a, b) ==
    IF a[1] = 0 THEN b
    ELSE IF b[1] = 0 THEN a
    ELSE LET g == GCD(a[2], b[2])
             l == (a[2] \div g) * b[2]
         IN  RNorm(a[1] * (l \div a[2]) + b[1] * (l \div b[2]), l)

RNeg(a) == <<-a[1], a[2]>>

RSub(a, b) == RAdd(a, RNeg(b))

RMul(a, b) ==
    LET g1 == GCD(a[1], b[2])
        g2 == GCD(b[1], a[2])
    IN  IF a[1] = 0 \/ b[1] = 0 THEN <<0, 1>>
        ELSE RNorm((a[1] \div g1) * (b[1] \div g2), (a[2] \div g2) * (b[2] \div g1))

\* a / b for b # 0; the callers test b first, as Python raises on b = 0
RDiv(a, b) == RMul(a, RNorm(b[2], b[1]))

RIsZero(a) == a[1] = 0

RLt(a, b) == RSub(a, b)[1] < 0

RLe(a, b) == RSub(a, b)[1] <= 0

\* x ** k for an integer k >= 0, by repeated squaring
RECURSIVE RPow(_, _)
RPow(x, k) ==
    IF k = 0 THEN <<1, 1>>
    ELSE LET h == RPow(x, k \div 2)
         IN  IF k % 2 = 0 THEN RMul(h, h) ELSE RMul(x, RMul(h, h))

\* s[lo] + ... + s[hi], added up by halves
RECURSIVE RSumRange(_, _, _)
RSumRange(s, lo, hi) ==
    IF hi < lo THEN <<0, 1>>
    ELSE IF hi = lo THEN s[lo]
    ELSE LET mid == (lo + hi) \div 2
         IN  RAdd(RSumRange(s, lo, mid), RSumRange(s, mid + 1, hi))

\* Python's sum(s), which starts from 0
RSum(s) == RSumRange(s, 1, Len(s))

\* Python's s[lo:hi] for 0 <= lo <= hi: the indices are clamped to len(s)
PySlice(s, lo, hi) ==
    LET a == IF lo > Len(s) THEN Len(s) ELSE lo
        b == IF hi > Len(s) THEN Len(s) ELSE hi
    IN  IF b <= a THEN <<>> ELSE SubSeq(s, a + 1, b)

\* Python's s[lo:]
PySliceFrom(s, lo) == PySlice(s, lo, Len(s))

-----------------------------------------------------------------------------
(* convert_percentages_to_decimal *)

\* rate / 100
PercentToDecimal(rate) == RDiv(rate, Rat(100))

-----------------------------------------------------------------------------
(* calculate_loan_details *)

\* the payment of one month under the Linear method (1 <= month <= n)
LinearPaymentWrongSign(loan_amount, r, n, month) ==
    RAdd(RDiv(loan_amount, Rat(n)),
         RMul(RMul(loan_amount, r),
              RAdd(Rat(1), RDiv(Rat(month - 1), Rat(n)))))

LinearPayment(loan_amount, r, n, month) ==
    RAdd(RDiv(loan_amount, Rat(n)),
         RMul(RMul(loan_amount, r),
              RSub(Rat(1), RDiv(Rat(month - 1), Rat(n)))))

\* numerator and denominator of the Annuity payment, as the code writes them
AnnuityNumerator(loan_amount, r, n) ==
    RMul(RMul(loan_amount, r), RPow(RAdd(Rat(1), r), n))

AnnuityDenominator(r, n) == RSub(RPow(RAdd(Rat(1), r), n), Rat(1))

NoLoan == [error |-> "none", down_payment |-> Rat(0), loan_amount |-> Rat(0),
           monthly_payments |-> <<>>]

calculate_loan_details(house_value, loan_percentage, loan_rate, loan_years, loan_type) ==
    LET loan_amount == RMul(house_value, loan_percentage)
        down_payment == RSub(house_value, loan_amount)
        monthly_interest_rate == RDiv(loan_rate, Rat(12))
        loan_term_months == loan_years * 12
        ok(mp) == [error |-> "none", down_payment |-> down_payment,
                   loan_amount |-> loan_amount, monthly_payments |-> mp]
        raise(e) == [NoLoan EXCEPT !.error = e]
    IN  IF loan_type = "Annuity" THEN
            IF RIsZero(AnnuityDenominator(monthly_interest_rate, loan_term_months))
            THEN raise("ZeroDivisionError")
            ELSE LET monthly_payment ==
                        RDiv(AnnuityNumerator(loan_amount, monthly_interest_rate,
                                              loan_term_months),
                             AnnuityDenominator(monthly_interest_rate, loan_term_months))
                 IN  ok([m \in 1..loan_term_months |-> monthly_payment])
        ELSE IF loan_type = "Linear" THEN
            ok([m \in 1..loan_term_months |->
                    LinearPayment(loan_amount, monthly_interest_rate,
                                  loan_term_months, m)])
        ELSE raise("ValueError")


-----------------------------------------------------------------------------
(* calculate_cumulative_costs *)

\* sum(monthly_payments[(year - 1) * 12:year * 12])
YearPaymentsRepeatsLastYear(monthly_payments, y) ==
    IF (y - 1) * 12 >= Len(monthly_payments)
    THEN RSum(PySliceFrom(monthly_payments, Len(monthly_payments) - 12))
    ELSE RSum(PySlice(monthly_payments, (y - 1) * 12, y * 12))

YearPayments(monthly_payments, y) ==
    RSum(PySlice(monthly_payments, (y - 1) * 12, y * 12))

\* initial * (1 + rate) ** (year - 1)
Inflated(initial, rate, y) == RMul(initial, RPow(RAdd(Rat(1), rate), y - 1))

\* what one year adds to cumulative_owning_cost
AnnualOwningCostDropsMaintenance(q, y) ==
    RSub(YearPayments(q.monthly_payments, y),
         Inflated(q.initial_maintenance_cost, q.maintenance_inflation_rate, y))

AnnualOwningCost(q, y) ==
    RAdd(YearPayments(q.monthly_payments, y),
         Inflated(q.initial_maintenance_cost, q.maintenance_inflation_rate, y))

\* the locals before the loop
CostsStart(q) ==
    [renting_cumulative_costs |-> <<>>, owning_cumulative_costs |-> <<>>,
     cumulative_rent_cost |-> Rat(0),
     cumulative_owning_cost |-> q.initial_investment]

\* one pass of the loop body
CostsBody(c, q, y) ==
    LET annual_rent == Inflated(q.initial_rent, q.rent_inflation_rate, y)
        rent == RAdd(c.cumulative_rent_cost, annual_rent)
        own == RAdd(c.cumulative_owning_cost, AnnualOwningCost(q, y))
    IN  [renting_cumulative_costs |-> Append(c.renting_cumulative_costs, rent),
         owning_cumulative_costs |-> Append(c.owning_cumulative_costs, own),
         cumulative_rent_cost |-> rent,
         cumulative_owning_cost |-> own]

-----------------------------------------------------------------------------
(* determine_break_even_year *)

\* Python's None; a returned year y is <<y>>
None == <<>>

\* the test of the loop
OwningCheaperOrEqual(own_cost, rent_cost) == RLe(own_cost, rent_cost)

OwningCheaperReversed(own_cost, rent_cost) == RLt(rent_cost, own_cost)

OwningCheaper(own_cost, rent_cost) == RLt(own_cost, rent_cost)

Min(a, b) == IF a < b THEN a ELSE b

\* the loop over zip(renting_costs, owning_costs), from position i on
RECURSIVE BreakEvenFrom(_, _, _, _)
BreakEvenFrom(renting_costs, owning_costs, years, i) ==
    IF i > Min(Len(renting_costs), Len(owning_costs)) THEN None
    ELSE IF OwningCheaper(owning_costs[i], renting_costs[i]) THEN <<years[i]>>
    ELSE BreakEvenFrom(renting_costs, owning_costs, years, i + 1)

determine_break_even_year(renting_costs, owning_costs, years) ==
    BreakEvenFrom(renting_costs, owning_costs, years, 1)

-----------------------------------------------------------------------------
(* calculate_post_sale_raw_cash, calculate_post_sale_cash *)

\* list(range(1, max_years + 1))
YearList(max_years) == [i \in 1..max_years |-> i]

calculate_post_sale_raw_cash(house_value, appreciation_rate, sell_tax_rate, years) ==
    [i \in 1..Len(years) |->
        LET property_value ==
                RMul(house_value, RPow(RAdd(Rat(1), appreciation_rate), years[i] - 1))
            profit == RSub(property_value, house_value)
        IN  RSub(property_value, RMul(profit, sell_tax_rate))]

\* round(x, 2): to the nearest hundredth, a half to the even neighbour
Round2(x) ==
    LET h == RMul(x, Rat(100))
        q == h[1] \div h[2]
        r == h[1] - q * h[2]
        up == (2 * r > h[2]) \/ (2 * r = h[2] /\ q % 2 = 1)
    IN  RNorm(IF up THEN q + 1 ELSE q, 100)

\* the dictionary, keyed by the year
calculate_post_sale_cash(house_value, appreciation_rate, sell_tax_rate, owning_costs, years) ==
    [y \in {years[i] : i \in 1..Len(years)} |->
        LET property_value ==
                RMul(house_value, RPow(RAdd(Rat(1), appreciation_rate), y))
            profit == RSub(property_value, house_value)
            sell_tax == RMul(profit, sell_tax_rate)
        IN  Round2(RSub(RSub(property_value, owning_costs[y]), sell_tax))]

-----------------------------------------------------------------------------
(* calculate_cash_flow_analysis *)

\* the arm of the if / elif / else on the sale year
SellBranchComparesNextYear(y, which_year_to_sell) ==
    IF y + 1 < which_year_to_sell THEN "pre"
    ELSE IF y + 1 = which_year_to_sell THEN "sale"
    ELSE "post"

SellBranchSellsAgain(y, which_year_to_sell) ==
    IF y < which_year_to_sell THEN "pre" ELSE "sale"

SellBranch(y, which_year_to_sell) ==
    IF y < which_year_to_sell THEN "pre"
    ELSE IF y = which_year_to_sell THEN "sale"
    ELSE "post"

\* the locals before the loop; branch records the arm each year took
CashStart(q) ==
    [annual_salary |-> q.annual_salary,
     cash_rent |-> q.initial_investment, cash_buy |-> q.initial_investment,
     cumulative_cash_rent |-> <<>>, cumulative_cash_buy |-> <<>>,
     cumulative_cash_buy_and_sell |-> <<>>, branch |-> <<>>, error |-> "none"]

\* one pass of the loop body; error is the exception it raises, if any
CashBody(c, q, y) ==
    LET annual_salary == RMul(c.annual_salary, RAdd(Rat(1), q.salary_growth_rate))
        net_savings == RSub(annual_salary, q.annual_expenditure)
        grow == RAdd(Rat(1), q.opportunity_cost_rate)
        rent_cost == Inflated(q.initial_rent, q.rent_inflation_rate, y)
        cash_rent == RMul(RAdd(c.cash_rent, RSub(net_savings, rent_cost)), grow)
        arm == SellBranch(y, q.which_year_to_sell)
        c1 == [c EXCEPT !.annual_salary = annual_salary,
                        !.cash_rent = cash_rent,
                        !.cumulative_cash_rent = Append(@, cash_rent)]
    IN  IF y > Len(q.maintenance_costs) THEN [c1 EXCEPT !.error = "IndexError"]
        ELSE
        LET total_buy_cost ==
                RAdd(YearPayments(q.monthly_payments, y), q.maintenance_costs[y])
            cash_buy == RMul(RAdd(c.cash_buy, RSub(net_savings, total_buy_cost)), grow)
            c2 == [c1 EXCEPT !.cash_buy = cash_buy,
                             !.cumulative_cash_buy = Append(@, cash_buy),
                             !.branch = Append(@, arm)]
        IN  IF arm = "pre" THEN
                [c2 EXCEPT !.cumulative_cash_buy_and_sell = Append(@, cash_buy)]
            ELSE IF arm = "sale" THEN
                IF y > Len(q.sale_after_tax) THEN [c2 EXCEPT !.error = "IndexError"]
                ELSE [c2 EXCEPT !.cumulative_cash_buy_and_sell =
                        Append(@, RSub(RAdd(cash_buy, q.sale_after_tax[y]),
                                       RSum(PySliceFrom(q.monthly_payments, y * 12))))]
            ELSE
                IF c.cumulative_cash_buy_and_sell = <<>>
                THEN [c2 EXCEPT !.error = "IndexError"]
                ELSE [c2 EXCEPT !.cumulative_cash_buy_and_sell =
                        Append(@, RMul(RAdd(@[Len(@)],
                                            RSub(net_savings, q.maintenance_costs[y])),
                                       grow))]

-----------------------------------------------------------------------------
(* The state before a call, and the steps of the calls *)

\* hin of a run that calls a calculate_* function directly
NoHandler == [mode |-> "direct"]

NoParams == [none |-> TRUE]

NoCosts == [renting_cumulative_costs |-> <<>>, owning_cumulative_costs |-> <<>>,
            cumulative_rent_cost |-> Rat(0), cumulative_owning_cost |-> Rat(0)]

NoCash == [annual_salary |-> Rat(0), cash_rent |-> Rat(0), cash_buy |-> Rat(0),
           cumulative_cash_rent |-> <<>>, cumulative_cash_buy |-> <<>>,
           cumulative_cash_buy_and_sell |-> <<>>, branch |-> <<>>,
           error |-> "none"]

Pending == [kind |-> "pending"]

\* everything but pc, hin, p, costs and cash, before anything has run
Fresh ==
    /\ year = 1
    /\ loan = NoLoan
    /\ break_even_year = None
    /\ result = Pending
    /\ error = "none"
    /\ run = 1
    /\ first_break_even = None

\* calculate_loan_details runs: directly, or as the first call of the handler
LoanDetails ==
    /\ pc = "loan"
    /\ LET l == calculate_loan_details(p.house_value, p.loan_percentage,
                                       p.loan_rate, p.loan_years, p.loan_type)
       IN  /\ loan' = l
           /\ error' = l.error
           /\ pc' = IF l.error # "none" \/ hin.mode = "direct" THEN "done"
                    ELSE "dispatch"
           /\ result' = IF l.error = "none" /\ hin.mode = "direct"
                        THEN [kind |-> "loan"] ELSE result
    /\ UNCHANGED <<hin, p, year, costs, break_even_year, cash, run, first_break_even>>

\* one pass of the year loop of calculate_cumulative_costs
CostsYear ==
    /\ pc = "costs"
    /\ year <= p.max_sell_year
    /\ costs' = CostsBody(costs, p, year)
    /\ year' = year + 1
    /\ UNCHANGED <<pc, hin, p, loan, break_even_year, cash, result, error, run,
                   first_break_even>>

\* the loop is over: calculate_cumulative_costs returns the two lists
CostsReturn ==
    /\ pc = "costs"
    /\ year > p.max_sell_year
    /\ pc' = "break_even"
    /\ UNCHANGED <<hin, p, year, loan, costs, break_even_year, cash, result, error,
                   run, first_break_even>>

\* years = list(range(1, max_years + 1)); determine_break_even_year(...)
DetermineBreakEven ==
    /\ pc = "break_even"
    /\ break_even_year' =
          determine_break_even_year(costs.renting_cumulative_costs,
                                    costs.owning_cumulative_costs,
                                    YearList(p.max_sell_year))
    /\ pc' = "post_sale"
    /\ UNCHANGED <<hin, p, year, loan, costs, cash, result, error, run,
                   first_break_even>>

\* calculate_post_sale_cash(...) and the return of the break-even result
PostSale ==
    /\ pc = "post_sale"
    /\ result' =
          [kind |-> "break_even",
           break_even_year |-> break_even_year,
           renting_costs |-> costs.renting_cumulative_costs,
           owning_costs |-> costs.owning_cumulative_costs,
           post_sale_cash |->
               calculate_post_sale_cash(p.house_value, p.appreciation_rate,
                                        p.sell_tax_rate,
                                        costs.owning_cumulative_costs,
                                        YearList(p.max_sell_year))]
    /\ pc' = "done"
    /\ UNCHANGED <<hin, p, year, loan, costs, break_even_year, cash, error, run,
                   first_break_even>>

\* one pass of the year loop of calculate_cash_flow_analysis; an exception ends
\* the call
CashYear ==
    /\ pc = "cash"
    /\ year <= p.max_years
    /\ LET c == CashBody(cash, p, year)
       IN  /\ cash' = c
           /\ error' = c.error
           /\ pc' = IF c.error = "none" THEN "cash" ELSE "done"
    /\ year' = year + 1
    /\ UNCHANGED <<hin, p, loan, costs, break_even_year, result, run,
                   first_break_even>>

\* the loop is over: the three lists are returned
CashReturn ==
    /\ pc = "cash"
    /\ year > p.max_years
    /\ result' = [kind |-> "cash_flow",
                  cash_rent |-> cash.cumulative_cash_rent,
                  cash_buy |-> cash.cumulative_cash_buy,
                  cash_buy_and_sell |-> cash.cumulative_cash_buy_and_sell]
    /\ pc' = "done"
    /\ UNCHANGED <<hin, p, year, loan, costs, break_even_year, cash, error, run,
                   first_break_even>>

-----------------------------------------------------------------------------
(* analysis_handler *)

\* the percentages are converted and calculate_loan_details is called
HandlerStart ==
    /\ pc = "handler"
    /\ p' = [house_value |-> hin.house_value,
             loan_percentage |-> hin.loan_percentage,
             loan_rate |-> PercentToDecimal(hin.loan_rate_percentage),
             loan_years |-> hin.loan_years,
             loan_type |-> hin.mortgage_type]
    /\ pc' = "loan"
    /\ UNCHANGED <<hin, year, loan, costs, break_even_year, cash, result, error,
                   run, first_break_even>>

\* mode == "Break-even Analysis": calculate_cumulative_costs is entered
HandlerBreakEven ==
    /\ pc = "dispatch"
    /\ hin.mode = "Break-even Analysis"
    /\ LET q == [house_value |-> hin.house_value,
                 initial_rent |-> hin.initial_rent,
                 rent_inflation_rate |-> PercentToDecimal(hin.rent_inflation_rate_percentage),
                 appreciation_rate |-> PercentToDecimal(hin.appreciation_rate_percentage),
                 initial_maintenance_cost |-> hin.initial_maintenance_cost,
                 maintenance_inflation_rate |->
                     PercentToDecimal(hin.maintenance_inflation_rate_percentage),
                 monthly_payments |-> loan.monthly_payments,
                 max_sell_year |-> hin.max_years,
                 initial_investment |-> hin.initial_investment,
                 sell_tax_rate |-> PercentToDecimal(hin.sell_tax_rate_percentage)]
       IN  /\ p' = q
           /\ costs' = CostsStart(q)
    /\ year' = 1
    /\ pc' = "costs"
    /\ UNCHANGED <<hin, loan, break_even_year, cash, result, error, run,
                   first_break_even>>

\* maintenance_costs of the cash-flow branch
MaintenanceCosts(initial_maintenance_cost, maintenance_inflation_rate, max_years) ==
    [i \in 1..max_years |->
        RMul(initial_maintenance_cost,
             RPow(RAdd(Rat(1), maintenance_inflation_rate), i - 1))]

\* mode == "Overall Cash Flow Analysis": calculate_cash_flow_analysis is entered
HandlerCashFlow ==
    /\ pc = "dispatch"
    /\ hin.mode = "Overall Cash Flow Analysis"
    /\ LET q == [annual_salary |-> hin.annual_salary,
                 salary_growth_rate |-> PercentToDecimal(hin.salary_growth_rate_percentage),
                 opportunity_cost_rate |->
                     PercentToDecimal(hin.opportunity_cost_rate_percentage),
                 monthly_payments |-> loan.monthly_payments,
                 initial_rent |-> hin.initial_rent,
                 rent_inflation_rate |-> PercentToDecimal(hin.rent_inflation_rate_percentage),
                 max_years |-> hin.max_years,
                 initial_investment |-> hin.initial_investment,
                 maintenance_costs |->
                     MaintenanceCosts(hin.initial_maintenance_cost,
                         PercentToDecimal(hin.maintenance_inflation_rate_percentage),
                         hin.max_years),
                 annual_expenditure |-> hin.annual_expenditure,
                 sale_after_tax |->
                     calculate_post_sale_raw_cash(hin.house_value,
                         PercentToDecimal(hin.appreciation_rate_percentage),
                         PercentToDecimal(hin.sell_tax_rate_percentage),
                         YearList(hin.max_years)),
                 which_year_to_sell |-> hin.which_year_to_sell]
       IN  /\ p' = q
           /\ cash' = CashStart(q)
    /\ year' = 1
    /\ pc' = "cash"
    /\ UNCHANGED <<hin, loan, costs, break_even_year, result, error, run,
                   first_break_even>>

\* neither mode: no branch is taken and the function falls off its end, which
\* in Python returns None
HandlerFallThrough ==
    /\ pc = "dispatch"
    /\ hin.mode # "Break-even Analysis"
    /\ hin.mode # "Overall Cash Flow Analysis"
    /\ result' = [kind |-> "None"]
    /\ pc' = "done"
    /\ UNCHANGED <<hin, p, year, loan, costs, break_even_year, cash, error, run,
                   first_break_even>>

-----------------------------------------------------------------------------
(* The inputs of the runs.  Amounts and rates are small and the rates are  *)
(* halves and whole numbers, so that every fraction the program computes   *)
(* stays within the integers; a rate of 12 is a monthly rate of 1.         *)

\* loan rates; the Annuity formula raises 1 + rate / 12 to the power of the
\* term in months, which has to fit the model checker's integers
LoanRates(loan_type) ==
    IF loan_type = "Linear" THEN {Rat(0), Rat(6), Rat(12)} ELSE {Rat(0), Rat(12)}

LoanTypes == {"Annuity", "Linear", "Interest-only"}

LoanInputs ==
    UNION {[house_value : {Rat(12), Rat(24), Rat(120)},
            loan_percentage : {Rat(0), Frac(1, 2), Rat(1)},
            loan_rate : LoanRates(t),
            loan_years : 1..MaxLoanYears,
            loan_type : {t}] : t \in LoanTypes}

\* payment schedules handed to the projections: what calculate_loan_details
\* returns for a loan of 12, level (rate 0) and decreasing (rate 12)
Schedules ==
    {calculate_loan_details(Rat(12), Rat(1), r, n, "Linear").monthly_payments :
        r \in {Rat(0), Rat(12)}, n \in 1..MaxTermYears}

InflationRates == {Rat(0), Frac(1, 2), Rat(-2)}

CostInputs ==
    [house_value : {Rat(100)},
     initial_rent : {Rat(10), Rat(30)},
     rent_inflation_rate : InflationRates,
     appreciation_rate : {Frac(1, 2)},
     initial_maintenance_cost : {Rat(0), Rat(2)},
     maintenance_inflation_rate : InflationRates,
     monthly_payments : Schedules,
     max_sell_year : 1..MaxYears,
     initial_investment : {Rat(0), Rat(18)},
     sell_tax_rate : {Frac(1, 2)}]

CashInputs ==
    [annual_salary : {Rat(20)},
     salary_growth_rate : {Rat(0), Frac(1, 2)},
     opportunity_cost_rate : {Rat(0), Frac(1, 2)},
     monthly_payments : Schedules,
     initial_rent : {Rat(10)},
     rent_inflation_rate : {Frac(1, 2)},
     initial_investment : {Rat(5)},
     annual_expenditure : {Rat(5)},
     max_years : 1..MaxYears,
     which_year_to_sell : 0..(MaxYears + 1)]

\* the two lists the caller builds for calculate_cash_flow_analysis
WithLists(q) ==
    [annual_salary |-> q.annual_salary,
     salary_growth_rate |-> q.salary_growth_rate,
     opportunity_cost_rate |-> q.opportunity_cost_rate,
     monthly_payments |-> q.monthly_payments,
     initial_rent |-> q.initial_rent,
     rent_inflation_rate |-> q.rent_inflation_rate,
     max_years |-> q.max_years,
     initial_investment |-> q.initial_investment,
     maintenance_costs |-> MaintenanceCosts(Rat(2), Frac(1, 2), q.max_years),
     annual_expenditure |-> q.annual_expenditure,
     sale_after_tax |->
         calculate_post_sale_raw_cash(Rat(100), Frac(1, 2), Frac(1, 2),
                                      YearList(q.max_years)),
     which_year_to_sell |-> q.which_year_to_sell]

Modes == {"Break-even Analysis", "Overall Cash Flow Analysis", "Tax Analysis"}

HandlerInputs ==
    [mode : Modes,
     house_value : {Rat(12)},
     loan_percentage : {Rat(1)},
     loan_rate_percentage : {Rat(0), Rat(1200)},
     loan_years : {1},
     appreciation_rate_percentage : {Rat(50)},
     initial_maintenance_cost : {Rat(2)},
     maintenance_inflation_rate_percentage : {Rat(50)},
     initial_rent : {Rat(30)},
     rent_inflation_rate_percentage : {Rat(50)},
     sell_tax_rate_percentage : {Rat(50)},
     max_years : 1..MaxYears,
     initial_investment : {Rat(5)},
     annual_salary : {Rat(20)},
     salary_growth_rate_percentage : {Rat(50)},
     opportunity_cost_rate_percentage : {Rat(50)},
     annual_expenditure : {Rat(5)},
     which_year_to_sell : {0, 2},
     mortgage_type : LoanTypes]

-----------------------------------------------------------------------------
(* The specifications *)

\* calculate_loan_details, called on its own
InitLoan ==
    /\ pc = "loan"
    /\ hin = NoHandler
    /\ p \in LoanInputs
    /\ costs = NoCosts
    /\ cash = NoCash
    /\ Fresh

NextLoan == LoanDetails

SpecLoan == InitLoan /\ [][NextLoan]_vars

\* the break-even projection on a given schedule: calculate_cumulative_costs,
\* determine_break_even_year, calculate_post_sale_cash
InitCosts ==
    /\ pc = "costs"
    /\ hin = NoHandler
    /\ p \in CostInputs
    /\ costs = CostsStart(p)
    /\ cash = NoCash
    /\ Fresh

NextCosts == CostsYear \/ CostsReturn \/ DetermineBreakEven \/ PostSale

SpecCosts == InitCosts /\ [][NextCosts]_vars

\* the projection is evaluated again with every owning cost ten times as high
Rerun ==
    /\ pc = "done"
    /\ run = 1
    /\ error = "none"
    /\ run' = 2
    /\ first_break_even' = break_even_year
    /\ LET q == [p EXCEPT !.initial_investment = RMul(Rat(10), @),
                          !.initial_maintenance_cost = RMul(Rat(10), @),
                          !.monthly_payments =
                              [m \in 1..Len(@) |-> RMul(Rat(10), @[m])]]
       IN  /\ p' = q
           /\ costs' = CostsStart(q)
    /\ year' = 1
    /\ break_even_year' = None
    /\ result' = Pending
    /\ pc' = "costs"
    /\ UNCHANGED <<hin, loan, cash, error>>

NextScale == NextCosts \/ Rerun

SpecScale == InitCosts /\ [][NextScale]_vars

\* calculate_cash_flow_analysis, called on its own
InitCash ==
    /\ pc = "cash"
    /\ hin = NoHandler
    /\ \E q \in CashInputs :
          /\ p = WithLists(q)
          /\ cash = CashStart(p)
    /\ costs = NoCosts
    /\ Fresh

NextCash == CashYear \/ CashReturn

SpecCash == InitCash /\ [][NextCash]_vars

\* analysis_handler
Init ==
    /\ pc = "handler"
    /\ hin \in HandlerInputs
    /\ p = NoParams
    /\ costs = NoCosts
    /\ cash = NoCash
    /\ Fresh

Next ==
    \/ HandlerStart
    \/ LoanDetails
    \/ HandlerBreakEven
    \/ HandlerCashFlow
    \/ HandlerFallThrough
    \/ CostsYear
    \/ CostsReturn
    \/ DetermineBreakEven
    \/ PostSale
    \/ CashYear
    \/ CashReturn

Spec == Init /\ [][Next]_vars

-----------------------------------------------------------------------------
(* Properties *)

\* a < b and a <= b on fractions, by cross-multiplication
Less(a, b) == a[1] * b[2] < b[1] * a[2]

AtMost(a, b) == a[1] * b[2] <= b[1] * a[2]

NonNegative(a) == a[1] >= 0

SellYearInHorizon == p.which_year_to_sell \in 1..p.max_years

BuyAndSell == cash.cumulative_cash_buy_and_sell

\* C1: for a sale year within the horizon, every entry of the buy-and-sell
\* series for a year before the sale year equals the buy series' entry for
\* that year.
C1_PreSaleMirrorsBuy ==
    SellYearInHorizon =>
        \A y \in 1..Len(BuyAndSell) :
            y < p.which_year_to_sell => BuyAndSell[y] = cash.cumulative_cash_buy[y]

\* a finished run that sold in year 2 or later, with a compounding rate
C1_Witness ==
    /\ pc = "done"
    /\ error = "none"
    /\ SellYearInHorizon
    /\ p.which_year_to_sell >= 2
    /\ ~RIsZero(p.opportunity_cost_rate)
    /\ Len(BuyAndSell) = p.max_years
    /\ BuyAndSell[p.which_year_to_sell - 1]
          = cash.cumulative_cash_buy[p.which_year_to_sell - 1]

\* salary * (1 + growth) ** y - expenditure: the net savings of year y
NetSavings(y) ==
    RSub(RMul(p.annual_salary, RPow(RAdd(Rat(1), p.salary_growth_rate), y)),
         p.annual_expenditure)

\* C2: for a sale year within the horizon, the sale arm is taken in the step
\* of the sale year and in no other; there the entry is the buy balance plus
\* the sale proceeds minus all payments scheduled after month 12 * y; every
\* later entry is the previous entry plus net savings minus maintenance,
\* compounded, with no proceeds and no mortgage payment in it.
C2_SaleOnce ==
    SellYearInHorizon =>
        /\ \A y \in 1..Len(cash.branch) :
              cash.branch[y] = "sale" <=> y = p.which_year_to_sell
        /\ \A y \in 1..Len(BuyAndSell) :
              /\ y = p.which_year_to_sell =>
                    BuyAndSell[y] =
                        RSub(RAdd(cash.cumulative_cash_buy[y], p.sale_after_tax[y]),
                             RSum(PySliceFrom(p.monthly_payments, 12 * y)))
              /\ y > p.which_year_to_sell =>
                    BuyAndSell[y] =
                        RMul(RAdd(BuyAndSell[y - 1],
                                  RSub(NetSavings(y), p.maintenance_costs[y])),
                             RAdd(Rat(1), p.opportunity_cost_rate))

\* a finished run that sold while payments were still scheduled and went on
\* for at least one more year
C2_Witness ==
    /\ pc = "done"
    /\ error = "none"
    /\ SellYearInHorizon
    /\ p.which_year_to_sell < p.max_years
    /\ Len(p.monthly_payments) > 12 * p.which_year_to_sell
    /\ Len(BuyAndSell) = p.max_years
    /\ cash.branch[p.which_year_to_sell] = "sale"
    /\ cash.branch[p.max_years] = "post"

\* C3: with a sale year outside [1, max_years] the simulation ends with an
\* InvalidSellYear error, never with a result or another error.
C3_InvalidSellYearRaised ==
    (pc = "done" /\ ~SellYearInHorizon) => error = "InvalidSellYear"

YearSeries == 1..p.max_sell_year

Own(y) == costs.owning_cumulative_costs[y]

Rent(y) == costs.renting_cumulative_costs[y]

\* C4: the returned break-even year is the smallest year whose cumulative
\* owning cost is strictly below the cumulative renting cost, and None when
\* there is no such year; a tie is not a break-even.
C4_FirstStrictBreakEven ==
    pc \in {"post_sale", "done"} =>
        IF break_even_year = None
        THEN \A y \in YearSeries : AtMost(Rent(y), Own(y))
        ELSE /\ break_even_year[1] \in YearSeries
             /\ Less(Own(break_even_year[1]), Rent(break_even_year[1]))
             /\ \A y \in YearSeries :
                   y < break_even_year[1] => AtMost(Rent(y), Own(y))

\* a break-even year that follows a year in which the two costs were equal
C4_Witness ==
    /\ pc = "done"
    /\ break_even_year # None
    /\ \E y \in YearSeries : y < break_even_year[1] /\ Own(y) = Rent(y)

\* C5: with the Annuity method and rate 0 the call ends without an error and
\* each of the loan_years * 12 payments is loan_amount / n.
C5_AnnuityZeroRateLevel ==
    (pc = "done" /\ p.loan_type = "Annuity" /\ RIsZero(p.loan_rate)) =>
        /\ error = "none"
        /\ Len(loan.monthly_payments) = p.loan_years * 12
        /\ \A m \in 1..Len(loan.monthly_payments) :
              loan.monthly_payments[m] =
                  RDiv(RMul(p.house_value, p.loan_percentage), Rat(p.loan_years * 12))

KnownMode == hin.mode \in {"Break-even Analysis", "Overall Cash Flow Analysis"}

\* C6: for a mode that is neither of the two, the handler ends with an
\* UnknownMode error (stated for the runs whose loan calculation succeeded).
C6_UnknownModeRaised ==
    (pc = "done" /\ ~KnownMode /\ loan.error = "none") => error = "UnknownMode"

LinearDone == pc = "done" /\ p.loan_type = "Linear"

\* C7 as claimed: the Linear schedule has loan_years * 12 entries and each
\* entry is strictly below the one before it.
C7_LinearStrictlyDecreasing ==
    LinearDone =>
        /\ error = "none"
        /\ Len(loan.monthly_payments) = p.loan_years * 12
        /\ \A m \in 1..(Len(loan.monthly_payments) - 1) :
              Less(loan.monthly_payments[m + 1], loan.monthly_payments[m])

\* C7 as amended: the Linear schedule has loan_years * 12 entries and no
\* entry is above the one before it.
C7_LinearNonIncreasing ==
    LinearDone =>
        /\ error = "none"
        /\ Len(loan.monthly_payments) = p.loan_years * 12
        /\ \A m \in 1..(Len(loan.monthly_payments) - 1) :
              AtMost(loan.monthly_payments[m + 1], loan.monthly_payments[m])

\* a Linear schedule of a positive loan at a positive rate, which does fall
C7_Witness ==
    /\ LinearDone
    /\ ~RIsZero(p.loan_rate)
    /\ ~RIsZero(p.loan_percentage)
    /\ Less(loan.monthly_payments[2], loan.monthly_payments[1])

\* loan term of the schedule in years
TermYears == Len(p.monthly_payments) \div 12

\* C8: with a horizon beyond the loan term the projection ends without an
\* error and with max_sell_year entries in each list, and in every year after
\* the term the owning cost grows by exactly that year's maintenance cost.
C8_PaidOffOnlyMaintenance ==
    /\ \A y \in 2..Len(costs.owning_cumulative_costs) :
          y > TermYears =>
              RSub(Own(y), Own(y - 1)) =
                  RMul(p.initial_maintenance_cost,
                       RPow(RAdd(Rat(1), p.maintenance_inflation_rate), y - 1))
    /\ pc = "done" =>
          /\ error = "none"
          /\ Len(costs.owning_cumulative_costs) = p.max_sell_year
          /\ Len(costs.renting_cumulative_costs) = p.max_sell_year

\* a finished projection that ran past the term with maintenance to pay
C8_Witness ==
    /\ pc = "done"
    /\ p.max_sell_year > TermYears
    /\ ~RIsZero(p.initial_maintenance_cost)
    /\ Less(Own(p.max_sell_year - 1), Own(p.max_sell_year))

NonNegativeInputs ==
    /\ NonNegative(p.rent_inflation_rate)
    /\ NonNegative(p.maintenance_inflation_rate)
    /\ NonNegative(p.initial_rent)
    /\ NonNegative(p.initial_maintenance_cost)
    /\ \A m \in 1..Len(p.monthly_payments) : NonNegative(p.monthly_payments[m])

\* C9: with non-negative inflation rates, rent, maintenance and payments both
\* cumulative series never fall, and the first owning entry is at least the
\* initial investment.
C9_SeriesNonDecreasing ==
    NonNegativeInputs =>
        /\ \A y \in 2..Len(costs.owning_cumulative_costs) :
              /\ AtMost(Rent(y - 1), Rent(y))
              /\ AtMost(Own(y - 1), Own(y))
        /\ Len(costs.owning_cumulative_costs) >= 1 =>
              AtMost(p.initial_investment, Own(1))

\* a finished projection of two years or more in which both series rose
C9_Witness ==
    /\ pc = "done"
    /\ NonNegativeInputs
    /\ p.max_sell_year >= 2
    /\ Less(Rent(1), Rent(2))
    /\ Less(Own(1), Own(2))
    /\ Less(p.initial_investment, Own(1))

\* every owning cost of the evaluation is non-negative
NonNegativeOwningCosts ==
    /\ NonNegative(p.initial_investment)
    /\ \A m \in 1..Len(p.monthly_payments) : NonNegative(p.monthly_payments[m])
    /\ \A y \in YearSeries :
          NonNegative(Inflated(p.initial_maintenance_cost,
                               p.maintenance_inflation_rate, y))

SecondRunDecided == run = 2 /\ pc \in {"post_sale", "done"}

\* C10: when the projection is evaluated again with the same renting inputs
\* and every (non-negative) owning cost ten times as high, the break-even
\* year is None or a year not before the first evaluation's, and None if the
\* first evaluation's was None.
C10_ScalingNeverEarlier ==
    (SecondRunDecided /\ NonNegativeOwningCosts) =>
        \/ break_even_year = None
        \/ /\ first_break_even # None
           /\ break_even_year[1] >= first_break_even[1]

\* a second evaluation whose break-even year is later than the first's
C10_Witness ==
    /\ SecondRunDecided
    /\ NonNegativeOwningCosts
    /\ first_break_even # None
    /\ break_even_year # None
    /\ break_even_year[1] > first_break_even[1]

=============================================================================
